---- MODULE Spec2Model ----
(***************************************************************************)
(* Model of canvas_mcp/server.py: the startup sequence of main() and the   *)
(* AggressiveHostFixMiddleware.dispatch handler that every HTTP request    *)
(* passes through before it reaches the SSE application.                   *)
(*                                                                         *)
(* dispatch touches only the scope of its own request and reads the        *)
(* process environment, so connections are modelled one at a time; the     *)
(* process environment is shared state that may change at any step.        *)
(***************************************************************************)
EXTENDS Integers, Sequences, FiniteSets, TLC

VARIABLES
    mainPc,          \* position of main()
    user_middleware, \* middleware classes installed on starlette_app
    environ,         \* os.environ
    reqPc,           \* position of the request being handled
    scope,           \* request.scope of the request being handled
    body,            \* request body (delivered through receive(), not in scope)
    received,        \* history: scope and body as the server built them
    railway_domain,  \* dispatch's local variable
    result,          \* history: what `await call_next(request)` produced
    response,        \* how dispatch ended: a returned response or a raised exception
    hostsWritten     \* history: host values dispatch has written so far

vars == <<mainPc, user_middleware, environ, reqPc, scope, body, received,
          railway_domain, result, response, hostsWritten>>

None == "None"
Unset == "<unset>"

-----------------------------------------------------------------------------
(* Bounds *)

\* longest header list a request arrives with
MaxHeaders == 2

-----------------------------------------------------------------------------
(* str / bytes *)

\* str.encode(): a bytes object is a different value from the str it encodes
Encode(s) == [bytes |-> s]

\* a bytes literal b"..."
B(s) == [bytes |-> s]

\* Strings whose characters matter are sequences of one-character strings.
UpperChars == <<"A","B","C","D","E","F","G","H","I","J","K","L","M",
                "N","O","P","Q","R","S","T","U","V","W","X","Y","Z">>
LowerChars == <<"a","b","c","d","e","f","g","h","i","j","k","l","m",
                "n","o","p","q","r","s","t","u","v","w","x","y","z">>

\* str.lower()
Lower(s) ==
    [i \in 1..Len(s) |->
        IF \E k \in 1..Len(UpperChars) : UpperChars[k] = s[i]
        THEN LowerChars[CHOOSE k \in 1..Len(UpperChars) : UpperChars[k] = s[i]]
        ELSE s[i]]

\* `sub in s` for strings
Contains(sub, s) ==
    \E i \in 0..(Len(s) - Len(sub)) :
        \A j \in 1..Len(sub) : s[i + j] = sub[j]

ValidationWord == <<"v","a","l","i","d","a","t","i","o","n">>

-----------------------------------------------------------------------------
(* Configuration read from the process environment *)

DefaultDomain == "canvas-mcp-production-8183.up.railway.app"
EnvDomains == {Unset, "gateway.example.com"}

HttpsPort == 443

\* mutant: the variable is never found and the default is always used
Getenv_DefaultOnly(env) == DefaultDomain

\* os.getenv("RAILWAY_PUBLIC_DOMAIN", default)
Getenv(env) ==
    IF env["RAILWAY_PUBLIC_DOMAIN"] = Unset
    THEN DefaultDomain
    ELSE env["RAILWAY_PUBLIC_DOMAIN"]

-----------------------------------------------------------------------------
(* Requests as the ASGI server hands them to the application *)

\* mutant: x-forwarded-for is missing from the names dispatch drops
HostRelated_NoForwardedFor == {B("host"), B("x-forwarded-host"), B("x-forwarded-proto")}

\* header names dispatch drops from the incoming list and writes itself
HostRelated == {B("host"), B("x-forwarded-host"), B("x-forwarded-proto"),
                B("x-forwarded-for")}

\* (name, value) pairs a request may carry; names arrive lower-cased
HeaderPairs ==
    { <<B("host"), B("10.0.0.7:8080")>>,
      <<B("x-forwarded-host"), B("proxy.internal")>>,
      <<B("x-forwarded-proto"), B("http")>>,
      <<B("x-forwarded-for"), B("203.0.113.9")>>,
      <<B("origin"), B("https://client.example")>>,
      <<B("referer"), B("https://client.example/app")>>,
      <<B("accept"), B("text/event-stream")>>,
      <<B("accept"), B("*/*")>> }

HeaderLists == UNION { [1..n -> HeaderPairs] : n \in 0..MaxHeaders }

StreamPath == "/sse"
MessagePath == "/messages/"
Paths == {StreamPath, MessagePath}

\* (method, body) combinations: a GET carries no body
MethodBodies == { <<"GET", "">>, <<"POST", "">>, <<"POST", "{\"method\":\"tools/list\"}">> }

\* the scope of an incoming request, before any middleware ran
IncomingScope(m, p, hs) ==
    [ method  |-> m,
      path    |-> p,
      headers |-> hs,
      scheme  |-> "http",
      server  |-> <<"10.0.0.7", 8080>>,
      client  |-> <<"203.0.113.9", 51000>> ]

NoScope == [ method |-> None ]

-----------------------------------------------------------------------------
(* AggressiveHostFixMiddleware.dispatch *)

\* mutant: origin headers are overwritten with the domain as well
FixedHeaders_OriginRewritten(hs, d) ==
    << <<B("host"), Encode(d)>>,
       <<B("x-forwarded-host"), Encode(d)>>,
       <<B("x-forwarded-proto"), B("https")>>,
       <<B("x-forwarded-for"), Encode(d)>> >>
    \o [ i \in 1..Len(SelectSeq(hs, LAMBDA h : h[1] \notin HostRelated)) |->
           LET h == SelectSeq(hs, LAMBDA x : x[1] \notin HostRelated)[i]
           IN  IF h[1] = B("origin") THEN <<h[1], Encode(d)>> ELSE h ]

\* mutant: the loop that appends the other headers is missing
FixedHeaders_OthersDropped(hs, d) ==
    << <<B("host"), Encode(d)>>,
       <<B("x-forwarded-host"), Encode(d)>>,
       <<B("x-forwarded-proto"), B("https")>>,
       <<B("x-forwarded-for"), Encode(d)>> >>

\* lines 81-91: the four fixed headers, then every other header in order
FixedHeaders(hs, d) ==
    << <<B("host"), Encode(d)>>,
       <<B("x-forwarded-host"), Encode(d)>>,
       <<B("x-forwarded-proto"), B("https")>>,
       <<B("x-forwarded-for"), Encode(d)>> >>
    \o SelectSeq(hs, LAMBDA h : h[1] \notin HostRelated)

\* mutant: the client address is left as it arrived
Rewrite_ClientKept(s, d) ==
    [ k \in DOMAIN s \cup {"mcp_bypass_validation", "railway_fixed"} |->
        CASE k = "headers" -> << <<B("host"), Encode(d)>>,
                                 <<B("x-forwarded-host"), Encode(d)>>,
                                 <<B("x-forwarded-proto"), B("https")>>,
                                 <<B("x-forwarded-for"), Encode(d)>> >>
                              \o SelectSeq(s.headers, LAMBDA h : h[1] \notin HostRelated)
          [] k = "scheme"  -> "https"
          [] k = "server"  -> <<d, HttpsPort>>
          [] k \in {"mcp_bypass_validation", "railway_fixed"} -> TRUE
          [] OTHER -> s[k] ]

\* mutant: a POST on the stream path is moved to the message path
Rewrite_Reconciled(s, d) ==
    [ k \in DOMAIN s \cup {"mcp_bypass_validation", "railway_fixed"} |->
        CASE k = "headers" -> << <<B("host"), Encode(d)>>,
                                 <<B("x-forwarded-host"), Encode(d)>>,
                                 <<B("x-forwarded-proto"), B("https")>>,
                                 <<B("x-forwarded-for"), Encode(d)>> >>
                              \o SelectSeq(s.headers, LAMBDA h : h[1] \notin HostRelated)
          [] k = "scheme"  -> "https"
          [] k = "server"  -> <<d, HttpsPort>>
          [] k = "client"  -> <<d, HttpsPort>>
          [] k = "path"    -> IF s.method = "POST" /\ s.path = StreamPath
                              THEN MessagePath ELSE s.path
          [] k \in {"mcp_bypass_validation", "railway_fixed"} -> TRUE
          [] OTHER -> s[k] ]

\* lines 94-101: the scope after dispatch has rewritten it
Rewrite(s, d) ==
    [ k \in DOMAIN s \cup {"mcp_bypass_validation", "railway_fixed"} |->
        CASE k = "headers" -> FixedHeaders(s.headers, d)
          [] k = "scheme"  -> "https"
          [] k = "server"  -> <<d, HttpsPort>>
          [] k = "client"  -> <<d, HttpsPort>>
          [] k \in {"mcp_bypass_validation", "railway_fixed"} -> TRUE
          [] OTHER -> s[k] ]

\* what `await call_next(request)` can produce: a response, or an exception
RequestValidationFailed ==
    <<"R","e","q","u","e","s","t"," ","v","a","l","i","d","a","t","i","o","n",
      " ","f","a","i","l","e","d">>
ValidationUpper == <<"V","A","L","I","D","A","T","I","O","N"," ","E","R","R","O","R">>
InvalidLiteral == <<"i","n","v","a","l","i","d"," ","l","i","t","e","r","a","l">>

Returned(st) == [kind |-> "returned", status |-> st]
Raised(ty, msg) == [kind |-> "raised", type |-> ty, msg |-> msg]

Outcomes ==
    { Returned(200), Returned(405),
      Raised("ValueError", RequestValidationFailed),
      Raised("ValueError", ValidationUpper),
      Raised("ValueError", InvalidLiteral),
      Raised("RuntimeError", RequestValidationFailed) }

\* mutant: the message is compared without lower-casing it
Handle_CaseSensitive(out) ==
    IF out.kind = "returned"
    THEN out
    ELSE IF out.type = "ValueError" /\ Contains(ValidationWord, out.msg)
         THEN Returned(200)
         ELSE out

\* mutant: the final `raise` is missing and every ValueError is answered
Handle_NoReraise(out) ==
    IF out.kind = "returned"
    THEN out
    ELSE IF out.type = "ValueError"
         THEN Returned(200)
         ELSE out

\* lines 103-111: the try/except around call_next
Handle(out) ==
    IF out.kind = "returned"
    THEN out
    ELSE IF out.type = "ValueError" /\ Contains(ValidationWord, Lower(out.msg))
         THEN Returned(200)
         ELSE out

-----------------------------------------------------------------------------
(* main() *)

\* mutant: the middleware is not installed
AddMiddleware_Forgotten(stack) == stack

\* line 126: add_middleware puts the class on the application's stack
AddMiddleware(stack) == <<"AggressiveHostFixMiddleware">> \o stack

Init ==
    /\ mainPc = "start"
    /\ user_middleware = <<>>
    /\ \E d \in EnvDomains :
          environ = [ RAILWAY_PUBLIC_DOMAIN |-> d,
                      MCP_DISABLE_HOST_VALIDATION |-> Unset,
                      MCP_SKIP_SECURITY_CHECKS |-> Unset ]
    /\ reqPc = "idle"
    /\ scope = NoScope
    /\ body = None
    /\ received = None
    /\ railway_domain = None
    /\ result = None
    /\ response = None
    /\ hostsWritten = {}

reqVars == <<reqPc, scope, body, received, railway_domain, result, response,
             hostsWritten>>

\* lines 115-117: validate_config() decides whether main goes on
ValidateConfig ==
    /\ mainPc = "start"
    /\ \E ok \in BOOLEAN :
          mainPc' = IF ok THEN "configured" ELSE "exited"
    /\ UNCHANGED <<user_middleware, environ>>
    /\ UNCHANGED reqVars

\* lines 119-123: create_server, register_all_tools, mcp.sse_app()
CreateApp ==
    /\ mainPc = "configured"
    /\ mainPc' = "app_created"
    /\ user_middleware' = <<>>
    /\ UNCHANGED environ
    /\ UNCHANGED reqVars

\* line 126
InstallMiddleware ==
    /\ mainPc = "app_created"
    /\ mainPc' = "middleware_added"
    /\ user_middleware' = AddMiddleware(user_middleware)
    /\ UNCHANGED environ
    /\ UNCHANGED reqVars

\* lines 128-133: the two os.environ assignments; the port read on line 128
\* is handed to uvicorn.run and read by nothing else
SetEnviron ==
    /\ mainPc = "middleware_added"
    /\ mainPc' = "environ_set"
    /\ environ' = [environ EXCEPT !["MCP_DISABLE_HOST_VALIDATION"] = "1",
                                  !["MCP_SKIP_SECURITY_CHECKS"] = "1"]
    /\ UNCHANGED user_middleware
    /\ UNCHANGED reqVars

\* lines 135-143: uvicorn.run starts accepting connections
UvicornRun ==
    /\ mainPc = "environ_set"
    /\ mainPc' = "serving"
    /\ UNCHANGED <<user_middleware, environ>>
    /\ UNCHANGED reqVars

\* os.environ is live process state: code running in the process may assign
\* RAILWAY_PUBLIC_DOMAIN at any time
EnvChange ==
    /\ mainPc \notin {"exited"}
    /\ \E d \in EnvDomains :
          /\ d # environ["RAILWAY_PUBLIC_DOMAIN"]
          /\ environ' = [environ EXCEPT !["RAILWAY_PUBLIC_DOMAIN"] = d]
    /\ UNCHANGED <<mainPc, user_middleware>>
    /\ UNCHANGED reqVars

-----------------------------------------------------------------------------
(* One request *)

\* the server accepts a connection and builds its scope
Receive ==
    /\ mainPc = "serving"
    /\ reqPc = "idle"
    /\ \E mb \in MethodBodies, p \in Paths, hs \in HeaderLists :
          /\ scope' = IncomingScope(mb[1], p, hs)
          /\ body' = mb[2]
          /\ received' = [scope |-> IncomingScope(mb[1], p, hs), body |-> mb[2]]
    /\ reqPc' = "received"
    /\ railway_domain' = None
    /\ result' = None
    /\ response' = None
    /\ UNCHANGED <<mainPc, user_middleware, environ, hostsWritten>>

\* lines 78-101: dispatch up to the await; without the middleware the scope
\* goes to the application as it is
Dispatch ==
    /\ reqPc = "received"
    /\ reqPc' = "call_next"
    /\ IF Len(user_middleware) > 0
       THEN /\ railway_domain' = Getenv(environ)
            /\ scope' = Rewrite(scope, Getenv(environ))
            /\ hostsWritten' = hostsWritten \cup {Encode(Getenv(environ))}
       ELSE UNCHANGED <<railway_domain, scope, hostsWritten>>
    /\ UNCHANGED <<mainPc, user_middleware, environ, body, received, result, response>>

\* line 104: the downstream application (routing, transport validation,
\* the SSE handlers) answers or raises
CallNext ==
    /\ reqPc = "call_next"
    /\ reqPc' = "handling"
    /\ \E out \in Outcomes : result' = out
    /\ UNCHANGED <<mainPc, user_middleware, environ, scope, body, received,
                   railway_domain, response, hostsWritten>>

\* lines 104-111: dispatch returns the response, answers 200, or re-raises
\* (log_error on line 107 writes to the logging sink and changes no state)
Finish ==
    /\ reqPc = "handling"
    /\ response' = IF Len(user_middleware) > 0 THEN Handle(result) ELSE result
    /\ reqPc' = response'.kind
    /\ UNCHANGED <<mainPc, user_middleware, environ, scope, body, received,
                   railway_domain, result, hostsWritten>>

\* the connection is over and its request object is dropped
Close ==
    /\ reqPc \in {"returned", "raised"}
    /\ reqPc' = "idle"
    /\ scope' = NoScope
    /\ body' = None
    /\ received' = None
    /\ railway_domain' = None
    /\ result' = None
    /\ response' = None
    /\ UNCHANGED <<mainPc, user_middleware, environ, hostsWritten>>

Next ==
    \/ ValidateConfig
    \/ CreateApp
    \/ InstallMiddleware
    \/ SetEnviron
    \/ UvicornRun
    \/ EnvChange
    \/ Receive
    \/ Dispatch
    \/ CallNext
    \/ Finish
    \/ Close

Spec == Init /\ [][Next]_vars

-----------------------------------------------------------------------------
(* Helpers for the properties *)

\* dispatch has run its synchronous part for the request being handled
Normalized == reqPc \in {"call_next", "handling", "returned", "raised"}

\* dispatch has ended for the request being handled
Ended == reqPc \in {"returned", "raised"}

\* the entries of a header list with a given name, in order
WithName(hs, n) == SelectSeq(hs, LAMBDA h : h[1] = n)

\* the entries of a header list whose name is not in a set, in order
Without(hs, names) == SelectSeq(hs, LAMBDA h : h[1] \notin names)

ForwardedNames == {B("x-forwarded-host"), B("x-forwarded-proto"), B("x-forwarded-for")}

-----------------------------------------------------------------------------
(* C1 *)

\* C1: normalization is idempotent. Applying the dispatch rewrite, with the
\* same domain, to the scope dispatch produced gives the same header list
\* (same entries, same order, nothing duplicated) and the same scheme and
\* server fields.
C1_Idempotent ==
    Normalized =>
        LET again == Rewrite(scope, railway_domain)
        IN  /\ again.headers = scope.headers
            /\ again.scheme = scope.scheme
            /\ again.server = scope.server

\* a request that arrived with several host / x-forwarded-* headers has been rewritten
C1_Witness ==
    /\ Normalized
    /\ Len(received.scope.headers) - Len(Without(received.scope.headers, HostRelated)) >= 2
    /\ scope.headers # received.scope.headers

-----------------------------------------------------------------------------
(* C2 *)

\* C2 (as amended): after dispatch the header list holds exactly one host
\* header, whose value is the public domain; every origin header that was
\* present is still there with the value it arrived with; the scheme is
\* https and the server port is 443.
C2_RewriteOutput ==
    Normalized =>
        /\ Len(WithName(scope.headers, B("host"))) = 1
        /\ WithName(scope.headers, B("host"))[1][2] = Encode(railway_domain)
        /\ WithName(scope.headers, B("origin")) = WithName(received.scope.headers, B("origin"))
        /\ scope.scheme = "https"
        /\ scope.server[2] = 443

\* C2 as stated: ... and every origin header that was present now carries
\* the public domain.
C2_Original ==
    Normalized =>
        /\ Len(WithName(scope.headers, B("host"))) = 1
        /\ WithName(scope.headers, B("host"))[1][2] = Encode(railway_domain)
        /\ Len(WithName(scope.headers, B("origin"))) = Len(WithName(received.scope.headers, B("origin")))
        /\ \A i \in 1..Len(scope.headers) :
              scope.headers[i][1] = B("origin") => scope.headers[i][2] = Encode(railway_domain)
        /\ scope.scheme = "https"
        /\ scope.server[2] = 443

\* a request that arrived with a host header and an origin header has been rewritten
C2_Witness ==
    /\ Normalized
    /\ Len(WithName(received.scope.headers, B("host"))) >= 1
    /\ Len(WithName(received.scope.headers, B("origin"))) >= 1

-----------------------------------------------------------------------------
(* C3 *)

\* C3 (as amended): dispatch alters no header other than host,
\* x-forwarded-host, x-forwarded-proto and x-forwarded-for. The headers with
\* any other name (origin and referer included) are the same after dispatch
\* as before: same values, same multiplicity, same relative order, none added.
C3_OtherHeadersKept ==
    Normalized =>
        Without(scope.headers, {B("host")} \cup ForwardedNames)
            = Without(received.scope.headers, {B("host")} \cup ForwardedNames)

\* C3 as stated: the headers with a name other than host, origin and referer
\* (the x-forwarded-* headers included) are the same after dispatch as before.
C3_Original ==
    Normalized =>
        Without(scope.headers, {B("host"), B("origin"), B("referer")})
            = Without(received.scope.headers, {B("host"), B("origin"), B("referer")})

\* a request that arrived with an x-forwarded-* header and a header of
\* another name has been rewritten
C3_Witness ==
    /\ Normalized
    /\ \E i, j \in 1..Len(received.scope.headers) :
          /\ received.scope.headers[i][1] \in ForwardedNames
          /\ received.scope.headers[j][1] \notin {B("host")} \cup ForwardedNames

-----------------------------------------------------------------------------
(* C4 *)

ScopeFlags == {"mcp_bypass_validation", "railway_fixed"}

\* C4 (as amended): the method, the path and the body are the same after
\* dispatch as before. Outside the header list dispatch writes the scheme and
\* the server address, and also the client address, which becomes
\* (public domain, 443), and the two flags mcp_bypass_validation and
\* railway_fixed; it writes no other field.
C4_FieldsWritten ==
    Normalized =>
        /\ scope.method = received.scope.method
        /\ scope.path = received.scope.path
        /\ body = received.body
        /\ scope.client = <<railway_domain, 443>>
        /\ DOMAIN scope = DOMAIN received.scope \cup ScopeFlags
        /\ \A k \in ScopeFlags : scope[k] = TRUE

\* C4 as stated: method, path, body and client address are the same after
\* dispatch as before, and no field other than the headers, the scheme and
\* the server is written.
C4_Original ==
    Normalized =>
        /\ scope.method = received.scope.method
        /\ scope.path = received.scope.path
        /\ body = received.body
        /\ scope.client = received.scope.client
        /\ \A k \in DOMAIN scope \ {"headers", "scheme", "server"} :
              k \in DOMAIN received.scope /\ scope[k] = received.scope[k]

\* a POST with a body has been through dispatch
C4_Witness ==
    /\ Normalized
    /\ received.scope.method = "POST"
    /\ received.body # ""
    /\ scope.server = <<railway_domain, 443>>

-----------------------------------------------------------------------------
(* C5 *)

\* the ValueErrors whose message holds "validation" in some letter case
ValidationErrors ==
    { Raised("ValueError", RequestValidationFailed),
      Raised("ValueError", ValidationUpper) }

\* C5 (as amended): when the downstream handler fails with a ValueError whose
\* message contains "validation" (in any letter case), dispatch answers the
\* connection with a response of status 200.
C5_ValidationAnswered200 ==
    (Ended /\ result \in ValidationErrors) => response = Returned(200)

\* C5 as stated: such a connection is answered with a rejection status,
\* never with a success status.
C5_Original ==
    (Ended /\ result \in ValidationErrors) =>
        (response.kind = "returned" /\ response.status >= 400)

\* dispatch has ended for a request whose handler raised
\* ValueError("VALIDATION ERROR")
C5_Witness ==
    /\ reqPc = "returned"
    /\ result = Raised("ValueError", ValidationUpper)

-----------------------------------------------------------------------------
(* C6 *)

\* C6 (as amended): dispatch ends by returning a response when the downstream
\* handler returned one or raised a ValueError whose message contains
\* "validation"; for every other exception (a ValueError without
\* "validation" in its message, or any other exception type) dispatch ends by
\* raising that same exception.
C6_OnlyValidationCaught ==
    Ended =>
        /\ (result.kind = "returned" \/ result \in ValidationErrors)
              => response.kind = "returned"
        /\ (result.kind = "raised" /\ result \notin ValidationErrors)
              => response = result

\* C6 as stated: dispatch never ends by raising.
C6_Original == reqPc # "raised"

\* dispatch has ended by raising, once for a ValueError without "validation"
\* in its message or for another exception type
C6_Witness ==
    /\ reqPc = "raised"
    /\ result \in { Raised("ValueError", InvalidLiteral),
                    Raised("RuntimeError", RequestValidationFailed) }
    /\ response = result

-----------------------------------------------------------------------------
(* C7 *)

\* C7: the normalizer runs before validation. The middleware is on the
\* application before the server accepts connections, and from the moment the
\* downstream application is invoked for a request every rewrite of dispatch
\* is in the scope: the four fixed headers lead the header list, the scheme
\* is https, server and client are (domain, 443) and both flags are set.
C7_NormalizedBeforeDownstream ==
    /\ mainPc = "serving" =>
          \E i \in 1..Len(user_middleware) :
              user_middleware[i] = "AggressiveHostFixMiddleware"
    /\ Normalized =>
          /\ railway_domain # None
          /\ Len(scope.headers) >= 4
          /\ SubSeq(scope.headers, 1, 4) =
                << <<B("host"), Encode(railway_domain)>>,
                   <<B("x-forwarded-host"), Encode(railway_domain)>>,
                   <<B("x-forwarded-proto"), B("https")>>,
                   <<B("x-forwarded-for"), Encode(railway_domain)>> >>
          /\ \A i \in 5..Len(scope.headers) :
                scope.headers[i][1] \notin {B("host")} \cup ForwardedNames
          /\ scope.scheme = "https"
          /\ scope.server = <<railway_domain, 443>>
          /\ scope.client = <<railway_domain, 443>>
          /\ \A k \in ScopeFlags : k \in DOMAIN scope /\ scope[k] = TRUE

\* the downstream application is being invoked for a request that arrived
\* with a host header of its own
C7_Witness ==
    /\ reqPc = "call_next"
    /\ Len(WithName(received.scope.headers, B("host"))) >= 1
    /\ received.scope.scheme = "http"

-----------------------------------------------------------------------------
(* C8 *)

\* C8 (as amended): no (method, path) is rewritten. Every request, a POST on
\* the event-stream path included, reaches the downstream application with
\* the method, the path and the body it arrived with.
C8_PathPassedThrough ==
    reqPc \in {"call_next", "handling"} =>
        /\ scope.path = received.scope.path
        /\ scope.method = received.scope.method
        /\ body = received.body

\* C8 as stated: a POST on the event-stream path reaches the downstream
\* application on the message path, method and body unchanged; every other
\* request keeps its path.
C8_Original ==
    reqPc \in {"call_next", "handling"} =>
        /\ scope.path = IF received.scope.method = "POST" /\ received.scope.path = StreamPath
                        THEN MessagePath
                        ELSE received.scope.path
        /\ scope.method = received.scope.method
        /\ body = received.body

\* a POST with a body on the event-stream path is handed to the downstream
\* application
C8_Witness ==
    /\ reqPc = "call_next"
    /\ received.scope.method = "POST"
    /\ received.scope.path = StreamPath
    /\ received.body # ""

-----------------------------------------------------------------------------
(* C10 *)

\* C10 (as amended): the public domain is read from the process environment
\* by dispatch on every request. The host value a Connection receives is the
\* value RAILWAY_PUBLIC_DOMAIN has at the moment that Connection is
\* normalized, or the built-in default when it is unset.
C10_DomainReadPerRequest ==
    [][ (reqPc = "received" /\ reqPc' = "call_next") =>
            LET d == IF environ["RAILWAY_PUBLIC_DOMAIN"] = Unset
                     THEN "canvas-mcp-production-8183.up.railway.app"
                     ELSE environ["RAILWAY_PUBLIC_DOMAIN"]
            IN  /\ railway_domain' = d
                /\ WithName(scope'.headers, B("host")) = << <<B("host"), Encode(d)>> >>
      ]_vars

\* C10 as stated: any two Connections normalized during the life of the
\* process receive the same host value.
C10_Original == Cardinality(hostsWritten) <= 1

\* two Connections have received different host values, the second one the
\* value the environment holds now
C10_Witness ==
    /\ Cardinality(hostsWritten) = 2
    /\ reqPc = "call_next"
    /\ environ["RAILWAY_PUBLIC_DOMAIN"] # Unset
    /\ railway_domain = environ["RAILWAY_PUBLIC_DOMAIN"]

====
